---- MODULE Spec2Model ----
(***************************************************************************)
(* PlayerAI (src/PlayerAI_3.py): depth-bounded minimax with alpha-beta     *)
(* pruning over 2048 boards, and the static evaluator it calls at leaves. *)
(*                                                                         *)
(* The search is modelled as the interpreter runs it: a call stack of      *)
(* frames of __maximize / __minimize, and a heap of Grid objects that the  *)
(* frames reference.  The Grid class (Grid_3) is not part of src/; its     *)
(* operations are modelled from the interface PlayerAI uses.               *)
(***************************************************************************)
EXTENDS Integers, Sequences, FiniteSets, TLC

(***************************************************************************)
(* Program constants                                                       *)
(***************************************************************************)
TARGET_TILE_VALUE == 2048

\* TILE_VALUE_PROBA.items(): the single modelled insertion, value 2 weight 9
TILE_VALUE_PROBA == << [value |-> 2, proba |-> 9] >>

MAX_DEPTH == 4

\* sys.maxsize in the source.  Python integers are unbounded, TLC's are
\* 32 bit, so the sentinel is scaled down: it still exceeds every value of
\* __eval in magnitude (EvalWithinSentinel) and 9 * MAX_UTILITY fits.
MAX_UTILITY == 100000000

SMOOTH_WEIGHT == 10
MONO_WEIGHT == 20
EMPTY_WEIGHT == 80
MAX_WEIGHT == 10

\* Grid_3: vecIndex = [UP, DOWN, LEFT, RIGHT] = range(4)
UP == 0
DOWN == 1
LEFT == 2
RIGHT == 3
vecIndex == << UP, DOWN, LEFT, RIGHT >>
DOWN_VEC == << 1, 0 >>
RIGHT_VEC == << 0, 1 >>

\* Python's None, and a value that is not None
None == << >>
Some(x) == << x >>

(***************************************************************************)
(* The boards getMove is called on                                         *)
(***************************************************************************)
\* grid.size, the side of the square board: Grid(size), 4 in the game; the
\* search and the evaluator are written for any size, the model runs them
\* on boards of side 2
N == 2

\* the boards handed to getMove hold 0, the tiles 2^1 .. 2^MaxExp, and the
\* two tiles next to the target (1024 and 2048)
MaxExp == 4

RECURSIVE Pow2(_)
Pow2(k) == IF k = 0 THEN 1 ELSE 2 * Pow2(k - 1)

Tiles == {0} \cup { Pow2(k) : k \in 1..MaxExp }
             \cup { TARGET_TILE_VALUE \div 2, TARGET_TILE_VALUE }

Idx == 0 .. (N - 1)
Pos == Idx \X Idx
Boards == [Pos -> Tiles]

(***************************************************************************)
(* Grid (Grid_3): the board interface                                      *)
(***************************************************************************)
crossBound(pos) ==
    pos[1] < 0 \/ pos[1] >= N \/ pos[2] < 0 \/ pos[2] >= N

getCellValue(map, pos) ==
    IF ~crossBound(pos) THEN Some(map[pos]) ELSE None

\* getCellValue(pos) == 0; None == 0 is False
canInsert(map, pos) ==
    getCellValue(map, pos) = Some(0)

setCellValue(map, pos, value) ==
    [map EXCEPT ![pos] = value]

\* row-major scan of the grid, as the nested range() loops run it
AllPos == [k \in 1 .. (N * N) |-> << (k - 1) \div N, (k - 1) % N >>]

getAvailableCells(map) ==
    SelectSeq(AllPos, LAMBDA p : map[p] = 0)

RECURSIVE MaxOver(_, _, _)
MaxOver(map, k, acc) ==
    IF k > N * N THEN acc
    ELSE MaxOver(map, k + 1, IF map[AllPos[k]] > acc THEN map[AllPos[k]] ELSE acc)

getMaxTile(map) == MaxOver(map, 1, 0)

\* merge(cells): one left-to-right pass, a merged tile is not merged again
RECURSIVE merge(_, _)
merge(cells, i) ==
    IF i >= Len(cells) THEN cells
    ELSE IF cells[i] = cells[i + 1]
         THEN merge(SubSeq(cells, 1, i - 1) \o << 2 * cells[i] >>
                        \o SubSeq(cells, i + 2, Len(cells)), i + 1)
         ELSE merge(cells, i + 1)

\* the positions of line j in the order the move visits them
LineUD(j, down) ==
    [k \in 1 .. N |-> IF down THEN << N - k, j >> ELSE << k - 1, j >>]
LineLR(i, right) ==
    [k \in 1 .. N |-> IF right THEN << i, N - k >> ELSE << i, k - 1 >>]

\* the new values of one line: non-empty cells, merged, padded with 0
Slide(map, line) ==
    LET vals   == [k \in 1 .. N |-> map[line[k]]]
        cells  == SelectSeq(vals, LAMBDA v : v # 0)
        merged == merge(cells, 1)
    IN  [k \in 1 .. N |-> IF k <= Len(merged) THEN merged[k] ELSE 0]

moveUD(map, down) ==
    [p \in Pos |->
        LET line == LineUD(p[2], down)
            k    == IF down THEN N - p[1] ELSE p[1] + 1
        IN  Slide(map, line)[k]]

moveLR(map, right) ==
    [p \in Pos |->
        LET line == LineLR(p[1], right)
            k    == IF right THEN N - p[2] ELSE p[2] + 1
        IN  Slide(map, line)[k]]

move(map, dir) ==
    IF dir = UP THEN moveUD(map, FALSE)
    ELSE IF dir = DOWN THEN moveUD(map, TRUE)
    ELSE IF dir = LEFT THEN moveLR(map, FALSE)
    ELSE moveLR(map, TRUE)

\* a direction is available iff moving a clone changes it
getAvailableMoves(map) ==
    SelectSeq(vecIndex, LAMBDA d : move(map, d) # map)

(***************************************************************************)
(* Position evaluator                                                      *)
(***************************************************************************)
RECURSIVE BitXor(_, _)
BitXor(a, b) ==
    IF a = 0 /\ b = 0 THEN 0
    ELSE (((a % 2) + (b % 2)) % 2) + 2 * BitXor(a \div 2, b \div 2)

RECURSIVE CountOnes(_)
CountOnes(n) == IF n = 0 THEN 0 ELSE (n % 2) + CountOnes(n \div 2)

\* bin(value ^ (value - 1)).count("1") if value != 0 else 0
log2(value) ==
    IF value # 0 THEN CountOnes(BitXor(value, value - 1)) ELSE 0

Abs(x) == IF x < 0 THEN -x ELSE x
Max2(a, b) == IF a >= b THEN a ELSE b

RECURSIVE ScanFarthest(_, _, _)
ScanFarthest(map, next_pos, vec) ==
    IF ~crossBound(next_pos) /\ canInsert(map, next_pos)
    THEN ScanFarthest(map, << next_pos[1] + vec[1], next_pos[2] + vec[2] >>, vec)
    ELSE next_pos

find_farthest_pos(map, start_pos, direction_vec) ==
    ScanFarthest(map, << start_pos[1] + direction_vec[1],
                         start_pos[2] + direction_vec[2] >>, direction_vec)

\* contribution of one start cell and one direction to smoothness
SmoothTerm(map, start_pos, direction_vec) ==
    LET terminal_pos   == find_farthest_pos(map, start_pos, direction_vec)
        terminal_value == getCellValue(map, terminal_pos)
    IN  IF terminal_value # None
        THEN - Abs(log2(map[start_pos]) - log2(terminal_value[1]))
        ELSE 0

RECURSIVE SmoothFrom(_, _)
SmoothFrom(map, k) ==
    IF k > N * N THEN 0
    ELSE (IF ~canInsert(map, AllPos[k])
          THEN SmoothTerm(map, AllPos[k], DOWN_VEC)
               + SmoothTerm(map, AllPos[k], RIGHT_VEC)
          ELSE 0)
         + SmoothFrom(map, k + 1)

smoothness(map) == SmoothFrom(map, 1)

\* the while loop of one column (vertical = TRUE) or one row: acc[1] is the
\* accumulator of the increasing side (DOWN / RIGHT), acc[2] the other's
RECURSIVE MonoLine(_, _, _, _, _)
MonoLine(map, vertical, line, current, acc) ==
    LET cur_pos  == IF vertical THEN << current, line >> ELSE << line, current >>
        far      == find_farthest_pos(map, cur_pos,
                                      IF vertical THEN DOWN_VEC ELSE RIGHT_VEC)
        next     == IF vertical THEN far[1] ELSE far[2]
        clamp    == IF next = N THEN N - 1 ELSE next
        next_pos == IF vertical THEN << clamp, line >> ELSE << line, clamp >>
        current_value == log2(map[cur_pos])
        next_value    == log2(map[next_pos])
        acc2 == IF current_value < next_value
                THEN << acc[1] + current_value - next_value, acc[2] >>
                ELSE << acc[1], acc[2] + next_value - current_value >>
    IN  IF next < N THEN MonoLine(map, vertical, line, next, acc2) ELSE acc2

RECURSIVE MonoAll(_, _, _, _)
MonoAll(map, vertical, line, acc) ==
    IF line >= N THEN acc
    ELSE MonoAll(map, vertical, line + 1, MonoLine(map, vertical, line, 0, acc))

monotonicity(map) ==
    LET ud == MonoAll(map, TRUE, 0, << 0, 0 >>)
        lr == MonoAll(map, FALSE, 0, << 0, 0 >>)
    IN  Max2(ud[2], ud[1]) + Max2(lr[2], lr[1])

eval(map) ==
    SMOOTH_WEIGHT * smoothness(map)
    + MONO_WEIGHT * monotonicity(map)
    + EMPTY_WEIGHT * Len(getAvailableCells(map))
    + MAX_WEIGHT * getMaxTile(map)

\* variant of is_terminal_state: the target compared with > instead of ==
is_terminal_state_gt(map) == getMaxTile(map) > TARGET_TILE_VALUE

is_terminal_state(map) == getMaxTile(map) = TARGET_TILE_VALUE

(***************************************************************************)
(* The search, as a call stack over a heap of Grid objects                 *)
(***************************************************************************)
VARIABLES
    phase,      \* "idle", "search", "returned", "done" or "raised"
    heap,       \* the live Grid objects: reference -> map
    stack,      \* the frames of __maximize / __minimize, innermost last
    result,     \* what the root __maximize returned: << move, utility >>
    returned,   \* what getMove returned
    nMax,       \* calls of __maximize made by this getMove
    nMin,       \* calls of __minimize made by this getMove
    given,      \* the map of the caller's grid when getMove was called
    nCut        \* loops of this getMove left by break with items remaining

vars == << phase, heap, stack, result, returned, nMax, nMin, given, nCut >>

\* the reference of the grid the caller handed to getMove
ROOT == 0

\* variant of IsCutoff: the depth limit tested one level too late
IsCutoffLate(map, depth) ==
    depth > MAX_DEPTH \/ is_terminal_state(map)

\* depth == MAX_DEPTH or __is_terminal_state(grid)
IsCutoff(map, depth) ==
    depth = MAX_DEPTH \/ is_terminal_state(map)

\* grid.clone(): a new object holding a copy of the map
clone(h, ref) ==
    LET new == CHOOSE r \in 0 .. Cardinality(DOMAIN h) :
                   r \notin DOMAIN h /\ \A q \in 0 .. (r - 1) : q \in DOMAIN h
    IN  [heap |-> (new :> h[ref]) @@ h, ref |-> new]

\* objects no frame references any more are released
Live(stk) ==
    {ROOT} \cup { stk[k].grid : k \in 1 .. Len(stk) }
           \cup { stk[k].grid_copy[1] :
                    k \in { q \in 1 .. Len(stk) : stk[q].grid_copy # None } }

Collect(h, stk) == [r \in (DOMAIN h \cap Live(stk)) |-> h[r]]

\* a frame on entry of proc(grid, depth, alpha, beta)
Frame(proc, ref, map, depth, alpha, beta) ==
    [ proc |-> proc, grid |-> ref, depth |-> depth,
      alpha |-> alpha, beta |-> beta, pc |-> "enter",
      items |-> << >>, i |-> 1, best_move |-> None, best_utility |-> 0,
      grid_copy |-> None, utility |-> 0, freq |-> 0, j |-> 1, ret |-> << >>,
      entry |-> map, alpha0 |-> alpha, beta0 |-> beta ]

\* 1 when the frame left its loop by break before the last item, else 0
Pruned(f) == IF f.pc = "exit" /\ f.i < Len(f.items) THEN 1 ELSE 0

Top == stack[Len(stack)]
SetTop(stk, f) == [stk EXCEPT ![Len(stk)] = f]

\* variant of MaxAfterChild: the loop index is recorded instead of the move
MaxAfterChildIndex(f, utility) ==
    LET g == IF utility > f.best_utility
             THEN [f EXCEPT !.best_move = Some(f.i), !.best_utility = utility]
             ELSE f
    IN  IF utility >= f.beta
        THEN [g EXCEPT !.pc = "exit"]
        ELSE [g EXCEPT !.alpha = IF utility > f.alpha THEN utility ELSE f.alpha,
                       !.i = f.i + 1, !.pc = "loop"]

\* variant of MaxAfterChild: alpha is assigned without the test of line 54
MaxAfterChildLowers(f, utility) ==
    LET g == IF utility > f.best_utility
             THEN [f EXCEPT !.best_move = Some(f.items[f.i]),
                            !.best_utility = utility]
             ELSE f
    IN  IF utility >= f.beta
        THEN [g EXCEPT !.pc = "exit"]
        ELSE [g EXCEPT !.alpha = utility, !.i = f.i + 1, !.pc = "loop"]

\* __maximize, lines 48-55: the node's statistics after a child's utility
MaxAfterChild(f, utility) ==
    LET g == IF utility > f.best_utility
             THEN [f EXCEPT !.best_move = Some(f.items[f.i]),
                            !.best_utility = utility]
             ELSE f
    IN  IF utility >= f.beta
        THEN [g EXCEPT !.pc = "exit"]
        ELSE [g EXCEPT !.alpha = IF utility > f.alpha THEN utility ELSE f.alpha,
                       !.i = f.i + 1, !.pc = "loop"]

\* variant of MinAfterCell: the cutoff compares with beta instead of alpha
MinAfterCellBeta(f, utility) ==
    LET g == IF utility < f.best_utility
             THEN [f EXCEPT !.best_move = Some(f.items[f.i]),
                            !.best_utility = utility]
             ELSE f
    IN  IF utility <= f.beta
        THEN [g EXCEPT !.pc = "exit"]
        ELSE [g EXCEPT !.beta = IF utility < f.beta THEN utility ELSE f.beta,
                       !.i = f.i + 1, !.pc = "loop"]

\* __minimize, lines 80-89: the node's statistics after a cell's utility
MinAfterCell(f, utility) ==
    LET g == IF utility < f.best_utility
             THEN [f EXCEPT !.best_move = Some(f.items[f.i]),
                            !.best_utility = utility]
             ELSE f
    IN  IF utility <= f.alpha
        THEN [g EXCEPT !.pc = "exit"]
        ELSE [g EXCEPT !.beta = IF utility < f.beta THEN utility ELSE f.beta,
                       !.i = f.i + 1, !.pc = "loop"]

\* the callee returns value: its frame is popped, the caller resumes
Return(value) ==
    LET rest == SubSeq(stack, 1, Len(stack) - 1)
    IN  /\ IF rest = << >>
           THEN /\ stack' = rest
                /\ result' = value
                /\ phase' = "returned"
           ELSE /\ stack' = SetTop(rest, [rest[Len(rest)] EXCEPT
                                             !.ret = value, !.pc = "ret"])
                /\ UNCHANGED << result, phase >>
        /\ heap' = Collect(heap, stack')
        /\ UNCHANGED << returned, nMax, nMin, given, nCut >>

Init ==
    /\ phase = "idle"
    /\ heap = << >>
    /\ stack = << >>
    /\ result = << >>
    /\ returned = None
    /\ nMax = 0
    /\ nMin = 0
    /\ given = << >>
    /\ nCut = 0

\* getMove(grid), line 25: the root call of __maximize on the caller's grid
StartSearch(board) ==
    /\ phase' = "search"
    /\ heap' = (ROOT :> board)
    /\ stack' = << Frame("maximize", ROOT, board, 0, -MAX_UTILITY, MAX_UTILITY) >>
    /\ nMax' = 1
    /\ given' = board
    /\ UNCHANGED << result, returned, nMin, nCut >>

GetMove ==
    /\ phase = "idle"
    /\ \E board \in Boards : StartSearch(board)

\* lines 33-37 and 60-64: the cutoff, evaluated statically
Cutoff ==
    /\ phase = "search"
    /\ Top.pc = "enter"
    /\ IsCutoff(heap[Top.grid], Top.depth)
    /\ Return(<< None, eval(heap[Top.grid]) >>)

\* lines 39-41
MaxBegin ==
    /\ phase = "search"
    /\ Top.proc = "maximize" /\ Top.pc = "enter"
    /\ ~IsCutoff(heap[Top.grid], Top.depth)
    /\ stack' = SetTop(stack, [Top EXCEPT !.best_move = None,
                                          !.best_utility = -MAX_UTILITY,
                                          !.items = getAvailableMoves(heap[Top.grid]),
                                          !.i = 1, !.pc = "loop"])
    /\ UNCHANGED << phase, heap, result, returned, nMax, nMin, given, nCut >>

\* variant of MaxCall: the move is applied to grid itself, no clone is made
MaxCallInPlace ==
    /\ phase = "search"
    /\ Top.proc = "maximize" /\ Top.pc = "loop" /\ Top.i <= Len(Top.items)
    /\ LET h2  == [heap EXCEPT ![Top.grid] = move(@, Top.items[Top.i])]
           me  == [Top EXCEPT !.grid_copy = Some(Top.grid), !.pc = "wait"]
           stk == SetTop(stack, me) \o
                  << Frame("minimize", Top.grid, h2[Top.grid], Top.depth + 1,
                           Top.alpha, Top.beta) >>
       IN  /\ stack' = stk
           /\ heap' = Collect(h2, stk)
    /\ nMin' = nMin + 1
    /\ UNCHANGED << phase, result, returned, nMax, given, nCut >>

\* lines 43-46: clone, move the clone, call __minimize on it
MaxCall ==
    /\ phase = "search"
    /\ Top.proc = "maximize" /\ Top.pc = "loop" /\ Top.i <= Len(Top.items)
    /\ LET c   == clone(heap, Top.grid)
           h2  == [c.heap EXCEPT ![c.ref] = move(@, Top.items[Top.i])]
           me  == [Top EXCEPT !.grid_copy = Some(c.ref), !.pc = "wait"]
           stk == SetTop(stack, me) \o
                  << Frame("minimize", c.ref, h2[c.ref], Top.depth + 1,
                           Top.alpha, Top.beta) >>
       IN  /\ stack' = stk
           /\ heap' = Collect(h2, stk)
    /\ nMin' = nMin + 1
    /\ UNCHANGED << phase, result, returned, nMax, given, nCut >>

\* lines 48-55
MaxUpdate ==
    /\ phase = "search"
    /\ Top.proc = "maximize" /\ Top.pc = "ret"
    /\ stack' = SetTop(stack, MaxAfterChild(Top, Top.ret[2]))
    /\ nCut' = nCut + Pruned(stack'[Len(stack')])
    /\ UNCHANGED << phase, heap, result, returned, nMax, nMin, given >>

\* line 57 and line 91: the loop is over or was left by break
LoopReturn ==
    /\ phase = "search"
    /\ \/ Top.pc = "loop" /\ Top.i > Len(Top.items)
       \/ Top.pc = "exit"
    /\ Return(<< Top.best_move, Top.best_utility >>)

\* lines 66-68
MinBegin ==
    /\ phase = "search"
    /\ Top.proc = "minimize" /\ Top.pc = "enter"
    /\ ~IsCutoff(heap[Top.grid], Top.depth)
    /\ stack' = SetTop(stack, [Top EXCEPT !.best_move = None,
                                          !.best_utility = MAX_UTILITY,
                                          !.items = getAvailableCells(heap[Top.grid]),
                                          !.i = 1, !.pc = "loop"])
    /\ UNCHANGED << phase, heap, result, returned, nMax, nMin, given, nCut >>

\* lines 70-74: clone, start the expectation over TILE_VALUE_PROBA
MinCell ==
    /\ phase = "search"
    /\ Top.proc = "minimize" /\ Top.pc = "loop" /\ Top.i <= Len(Top.items)
    /\ LET c   == clone(heap, Top.grid)
           stk == SetTop(stack, [Top EXCEPT !.grid_copy = Some(c.ref),
                                            !.utility = 0, !.freq = 0,
                                            !.j = 1, !.pc = "inner"])
       IN  /\ stack' = stk
           /\ heap' = Collect(c.heap, stk)
    /\ UNCHANGED << phase, result, returned, nMax, nMin, given, nCut >>

\* lines 76-77: put the tile on the clone, call __maximize on it
MinCall ==
    /\ phase = "search"
    /\ Top.proc = "minimize" /\ Top.pc = "inner"
    /\ Top.j <= Len(TILE_VALUE_PROBA)
    /\ LET ref == Top.grid_copy[1]
           h2  == [heap EXCEPT ![ref] = setCellValue(@, Top.items[Top.i],
                                                     TILE_VALUE_PROBA[Top.j].value)]
           stk == SetTop(stack, [Top EXCEPT !.pc = "wait"]) \o
                  << Frame("maximize", ref, h2[ref], Top.depth + 1,
                           Top.alpha, Top.beta) >>
       IN  /\ stack' = stk
           /\ heap' = h2
    /\ nMax' = nMax + 1
    /\ UNCHANGED << phase, result, returned, nMin, given, nCut >>

\* lines 78-79
MinAccum ==
    /\ phase = "search"
    /\ Top.proc = "minimize" /\ Top.pc = "ret"
    /\ stack' = SetTop(stack,
           [Top EXCEPT !.utility = @ + TILE_VALUE_PROBA[Top.j].proba * Top.ret[2],
                       !.freq = @ + TILE_VALUE_PROBA[Top.j].proba,
                       !.j = @ + 1, !.pc = "inner"])
    /\ UNCHANGED << phase, heap, result, returned, nMax, nMin, given, nCut >>

\* lines 80-89
MinUpdate ==
    /\ phase = "search"
    /\ Top.proc = "minimize" /\ Top.pc = "inner"
    /\ Top.j > Len(TILE_VALUE_PROBA)
    /\ stack' = SetTop(stack, MinAfterCell(Top, Top.utility \div Top.freq))
    /\ nCut' = nCut + Pruned(stack'[Len(stack')])
    /\ UNCHANGED << phase, heap, result, returned, nMax, nMin, given >>

\* lines 27, 30: the search found a move
GetMoveFound ==
    /\ phase = "returned"
    /\ result[1] # None
    /\ returned' = result[1]
    /\ phase' = "done"
    /\ UNCHANGED << heap, stack, result, nMax, nMin, given, nCut >>

\* lines 27-30: move is None, a random one of the available moves
GetMoveRandom ==
    /\ phase = "returned"
    /\ result[1] = None
    /\ LET moves == getAvailableMoves(heap[ROOT])
       IN  \E k \in 0 .. (Len(moves) - 1) :
               returned' = Some(moves[k + 1])
    /\ phase' = "done"
    /\ UNCHANGED << heap, stack, result, nMax, nMin, given, nCut >>

\* line 29 with no available move: randint(0, -1) raises ValueError
GetMoveRaise ==
    /\ phase = "returned"
    /\ result[1] = None
    /\ Len(getAvailableMoves(heap[ROOT])) = 0
    /\ phase' = "raised"
    /\ UNCHANGED << heap, stack, result, returned, nMax, nMin, given, nCut >>

Next ==
    \/ GetMove
    \/ Cutoff
    \/ MaxBegin
    \/ MaxCall
    \/ MaxUpdate
    \/ MinBegin
    \/ MinCell
    \/ MinCall
    \/ MinAccum
    \/ MinUpdate
    \/ LoopReturn
    \/ GetMoveFound
    \/ GetMoveRandom
    \/ GetMoveRaise

Spec == Init /\ [][Next]_vars

TypeOK ==
    /\ phase \in {"idle", "search", "returned", "done", "raised"}
    /\ nMax \in Nat /\ nMin \in Nat /\ nCut \in Nat
    /\ Len(stack) <= MAX_DEPTH + 1
    /\ phase = "search" <=> stack # << >>

\* the scaled sentinel is, like sys.maxsize, beyond every evaluation
EvalWithinSentinel ==
    \A r \in DOMAIN heap : Abs(eval(heap[r])) < MAX_UTILITY

(***************************************************************************)
(* Properties                                                              *)
(***************************************************************************)
Range(seq) == { seq[k] : k \in 1 .. Len(seq) }
Finished == phase \in {"done", "raised"}

\* C1: on a board with a legal move and maximum tile below the target,
\* getMove returns (it does not raise) and what it returns is one of the
\* board's available moves.
C1_MoveIsAvailable ==
    (Finished /\ getAvailableMoves(given) # << >>
              /\ getMaxTile(given) < TARGET_TILE_VALUE)
        => /\ phase = "done"
           /\ returned # None
           /\ returned[1] \in Range(getAvailableMoves(given))

\* C1 witness: getMove returned the move the search found on such a board
C1_Witness ==
    /\ phase = "done"
    /\ getAvailableMoves(given) # << >>
    /\ getMaxTile(given) < TARGET_TILE_VALUE
    /\ result[1] # None /\ returned = result[1]
    /\ nMin > 1

\* the depth-bounded recursion with the two cutoff tests (utility >= beta,
\* utility <= alpha) removed: every child is visited
RECURSIVE MaximizePlain(_, _)
RECURSIVE MinimizePlain(_, _)
RECURSIVE MaxFold(_, _, _, _)
RECURSIVE MinFold(_, _, _, _)
RECURSIVE Expect(_, _, _, _, _, _)

MaximizePlain(map, depth) ==
    IF IsCutoff(map, depth) THEN eval(map)
    ELSE MaxFold(map, depth, getAvailableMoves(map), -MAX_UTILITY)

MaxFold(map, depth, moves, max_utility) ==
    IF moves = << >> THEN max_utility
    ELSE LET utility == MinimizePlain(move(map, Head(moves)), depth + 1)
         IN  MaxFold(map, depth, Tail(moves),
                     IF utility > max_utility THEN utility ELSE max_utility)

Expect(map, depth, cell, j, utility, freq) ==
    IF j > Len(TILE_VALUE_PROBA) THEN utility \div freq
    ELSE Expect(setCellValue(map, cell, TILE_VALUE_PROBA[j].value), depth, cell,
                j + 1,
                utility + TILE_VALUE_PROBA[j].proba *
                    MaximizePlain(setCellValue(map, cell, TILE_VALUE_PROBA[j].value),
                                  depth + 1),
                freq + TILE_VALUE_PROBA[j].proba)

MinimizePlain(map, depth) ==
    IF IsCutoff(map, depth) THEN eval(map)
    ELSE MinFold(map, depth, getAvailableCells(map), MAX_UTILITY)

MinFold(map, depth, cells, min_utility) ==
    IF cells = << >> THEN min_utility
    ELSE LET utility == Expect(map, depth, Head(cells), 1, 0, 0)
         IN  MinFold(map, depth, Tail(cells),
                     IF utility < min_utility THEN utility ELSE min_utility)

\* C2: the utility the pruned root call returns equals the utility of the
\* same recursion without the two cutoff tests.
C2_PrunedEqualsPlain ==
    phase = "returned" => result[2] = MaximizePlain(given, 0)

\* C2 witness: a root call returned a move after loops were left by break
\* with children unvisited, in both procedures' share of the tree
C2_Witness ==
    /\ phase = "returned"
    /\ result[1] # None
    /\ nCut >= 2

\* C3 as stated: on a board whose maximum tile is the target, getMove makes
\* no call of __maximize and no call of __minimize.
C3_NoSearchCall ==
    (phase # "idle" /\ getMaxTile(given) = TARGET_TILE_VALUE)
        => nMax = 0 /\ nMin = 0

\* C3 amended: on such a board getMove calls __maximize exactly once (the
\* root call, which returns at its cutoff with no move) and never calls
\* __minimize.
C3_OnlyRootCall ==
    (phase # "idle" /\ getMaxTile(given) = TARGET_TILE_VALUE)
        => /\ nMax = 1 /\ nMin = 0
           /\ Len(stack) <= 1
           /\ phase \in {"returned", "done", "raised"}
                  => result = << None, eval(given) >>

\* C3 witness: getMove returned a random move on a board holding the target
C3_Witness ==
    /\ phase = "done"
    /\ getMaxTile(given) = TARGET_TILE_VALUE
    /\ returned # None

\* C4: getMove never ends in an error; on a board with no legal move it
\* returns none.
C4_NeverRaises ==
    /\ phase # "raised"
    /\ (Finished /\ getAvailableMoves(given) = << >>) => returned = None

\* C5: the grid handed to getMove, and the grid handed to every invocation
\* of __maximize or __minimize on the stack, has the cell values it had
\* when the invocation was entered.
C5_GridUnchanged ==
    /\ phase # "idle" => heap[ROOT] = given
    /\ \A k \in 1 .. Len(stack) : heap[stack[k].grid] = stack[k].entry

\* C5 witness: a clone was moved and a clone was given a tile while the
\* callers' grids are on the stack
C5_Witness ==
    /\ Len(stack) >= 3
    /\ heap[stack[2].grid] # heap[stack[1].grid]
    /\ heap[stack[3].grid] # heap[stack[2].grid]

\* the value a callee returned for board b at depth d, when b has no
\* successor and is not at a cutoff
NoSuccessor(proc, b) ==
    IF proc = "maximize" THEN getAvailableMoves(b) = << >>
    ELSE getAvailableCells(b) = << >>

\* C6: a node that is not at a cutoff and has no successor returns
\* (none, evaluate(board)).
C6_NoSuccessorEvaluates ==
    /\ (phase = "returned" /\ ~IsCutoff(given, 0) /\ NoSuccessor("maximize", given))
           => result = << None, eval(given) >>
    /\ (phase = "search" /\ Top.pc = "ret")
           => LET b == heap[Top.grid_copy[1]]
                  callee == IF Top.proc = "maximize" THEN "minimize" ELSE "maximize"
              IN  (~IsCutoff(b, Top.depth + 1) /\ NoSuccessor(callee, b))
                      => Top.ret = << None, eval(b) >>

\* C7: the root call returns no move only if the board has no legal move or
\* its maximum tile is the target.
C7_RootNoneOnlyIfDeadOrTerminal ==
    (phase = "returned" /\ result[1] = None)
        => \/ getAvailableMoves(given) = << >>
           \/ getMaxTile(given) = TARGET_TILE_VALUE

\* C8: the exponent function maps every tile 2^k, k >= 1, to k, and 0 to 0.
C8_Log2IsExponent ==
    \A r \in DOMAIN heap : \A p \in Pos :
        /\ heap[r][p] = 0 => log2(heap[r][p]) = 0
        /\ heap[r][p] # 0 => Pow2(log2(heap[r][p])) = heap[r][p]

\* C9: the root runs at depth 0, every callee runs at its caller's depth
\* plus one, no call is made at a depth above MAX_DEPTH, and a call at
\* MAX_DEPTH is at its cutoff: it makes no call and returns the evaluation.
C9_DepthBounded ==
    /\ \A k \in 1 .. Len(stack) :
          /\ stack[k].depth = k - 1
          /\ stack[k].depth <= MAX_DEPTH
          /\ stack[k].depth = MAX_DEPTH => stack[k].pc = "enter"
    /\ (phase = "search" /\ Top.pc = "ret" /\ Top.depth + 1 = MAX_DEPTH)
          => Top.ret = << None, eval(heap[Top.grid_copy[1]]) >>

\* C9 witness: a call at MAX_DEPTH has returned to its caller
C9_Witness ==
    /\ phase = "search"
    /\ Top.pc = "ret" /\ Top.depth + 1 = MAX_DEPTH
    /\ ~is_terminal_state(heap[Top.grid_copy[1]])

\* C10: in every step a frame that stays on the stack does not lower its
\* alpha nor raise its beta, and a frame that is pushed receives bounds
\* with alpha < beta, alpha not below and beta not above the bounds its
\* caller received.
C10_Step ==
    /\ \A k \in 1 .. Len(stack) :
          k <= Len(stack') =>
              /\ stack'[k].alpha >= stack[k].alpha
              /\ stack'[k].beta <= stack[k].beta
    /\ Len(stack') = Len(stack) + 1 =>
          LET new == stack'[Len(stack')]
          IN  /\ new.alpha < new.beta
              /\ Len(stack) >= 1 =>
                    /\ new.alpha >= stack[Len(stack)].alpha0
                    /\ new.beta <= stack[Len(stack)].beta0

\* C10: every step of the search satisfies C10_Step: the bound pair only
\* narrows and every invocation receives alpha < beta.
C10_BoundsNarrow == [][C10_Step]_vars

\* C10 witness: a callee runs with both bounds narrowed inside the
\* sentinels, under a caller that raised its alpha
C10_Witness ==
    /\ Len(stack) >= 3
    /\ stack[1].alpha > stack[1].alpha0
    /\ stack[3].alpha0 > -MAX_UTILITY
    /\ stack[3].beta0 < MAX_UTILITY

====
